---- MODULE Spec2Model ----
(***************************************************************************)
(* OneGeo backend: LAS well-log ingestion.  The relational store (wells,   *)
(* files, curves), the blob store and the HTTP handlers that mutate them   *)
(* (upload, process, delete) are modelled as a state machine whose steps   *)
(* are the store and blob calls of each handler, in source order.          *)
(***************************************************************************)
EXTENDS Integers, Sequences, FiniteSets, Bags, TLC

\* ------------------------------------------------------------------ bounds
MaxFiles == 2        \* file records ever created (File.id is autoincrement)
MaxWells == 2        \* well records ever created (Well.id is autoincrement)
MaxUploadFiles == 2  \* files carried by one upload request
ConcMaxFiles == 2    \* file records ever created in the concurrent runs
MaxBulk == 5         \* samples passed to a bulk_insert call observed on its own
MaxStored == 3       \* stored samples when the read side is observed on its own
MaxNames == 2        \* length of a requested curve_names list
MaxCurves == 3       \* declared curves (depth included) of a parsed document
MaxRows == 2         \* data rows of a parsed document

\* --------------------------------------------------------------- constants
\* curve_dao.py BATCH_SIZE, scaled from 10000 so that a three-sample file
\* spans two chunks.
BATCH_SIZE == 2

ReqIds == 1 .. 2

\* ------------------------------------------------------------ value tokens
\* A float of the data section: a number, not-a-number, infinity, or one of
\* the two large sentinels extract_curves names; None is the absent value of
\* a stored sample.
Num(n) == [k |-> "num", v |-> n]
NaN == [k |-> "nan", v |-> 0]
Inf == [k |-> "inf", v |-> 0]
Big30 == [k |-> "1e+30", v |-> 0]
Big31 == [k |-> "1e+31", v |-> 0]
None == [k |-> "none", v |-> 0]

\* ---------------------------------------------------------- LAS documents
\* The LAS contents the requests carry.  ok: lasio.read succeeds; well: the
\* WELL item of the ~Well section ("" when absent); curves: the declared
\* mnemonics, depth first; data: the rows of the ~ASCII section.
Docs == {"A1", "A2", "B"}
ConcDocs == {"A1", "A2"}
FileNames == {"f.las"}

LAS(d) ==
  CASE d = "A1" -> [ok |-> TRUE, well |-> "A", curves |-> <<"DEPT", "GR">>,
                    data |-> << <<Num(1), Num(10)>>, <<Num(2), NaN>>, <<Num(3), Num(30)>> >>]
    [] d = "A2" -> [ok |-> TRUE, well |-> "A", curves |-> <<"DEPT", "RHOB">>,
                    data |-> << <<Num(1), Num(5)>>, <<NaN, Num(6)>> >>]
    [] d = "B"  -> [ok |-> TRUE, well |-> "", curves |-> <<"DEPT", "GR">>,
                    data |-> << <<Num(1), Big30>> >>]
    [] d = "A3" -> [ok |-> TRUE, well |-> "A", curves |-> <<"DEPT", "GR">>,
                    data |-> << <<Num(1), Num(10)>>, <<Num(1), Num(30)>> >>]
    [] OTHER    -> [ok |-> FALSE, well |-> "", curves |-> <<>>, data |-> <<>>]

\* LASParserService.get_well_name
get_well_name(las) == IF las.well # "" THEN las.well ELSE "Unknown Well"

\* value_val that keeps the token as it is.
value_val_literal(v) == v

\* extract_curves, inner loop: the value stored for a data token
value_val(v) == IF v.k \in {"nan", "1e+30", "1e+31"} THEN None ELSE v

\* extract_curves, inner loop over zip(depth_data, value_data) for curve ci:
\* a row whose depth is NaN is skipped, every other row yields one Curve.
RECURSIVE curve_rows(_, _, _, _)
curve_rows(las, well_id, ci, j) ==
  IF j > Len(las.data) THEN <<>>
  ELSE LET d == las.data[j][1]
           rest == curve_rows(las, well_id, ci, j + 1)
       IN IF d.k = "nan" THEN rest
          ELSE << [well_id |-> well_id, depth |-> d,
                   curve_name |-> las.curves[ci],
                   value |-> value_val(las.data[j][ci])] >> \o rest

\* extract_curves, outer loop: every declared curve but the first.
RECURSIVE extract_from(_, _, _)
extract_from(las, well_id, ci) ==
  IF ci > Len(las.curves) THEN <<>>
  ELSE curve_rows(las, well_id, ci, 1) \o extract_from(las, well_id, ci + 1)

extract_curves(las, well_id) ==
  IF Len(las.curves) = 0 THEN <<>> ELSE extract_from(las, well_id, 2)

\* ------------------------------------------------------------------- state
VARIABLES
  wells,     \* table wells: set of [id, name]
  files,     \* table files: set of [id, well_id, key, processed, status, is_important]
  curves,    \* table curves, committed rows: bag of [well_id, depth, curve_name, value]
  blobs,     \* blob store: function from key <<well_id, file_name>> to a document
  nextWell,  \* next autoincrement Well.id
  nextFile,  \* next autoincrement File.id
  req,       \* the requests in flight: position, locals and session of each
  events,    \* the emit calls of the process request: made, and about to be made
  bulk,      \* a CurveDAO.bulk_insert call observed on its own: input and calls made
  call       \* the last read-side or parser call: function, arguments, result

store == <<wells, files, curves, blobs, nextWell, nextFile>>
observers == <<events, bulk, call>>
vars == <<wells, files, curves, blobs, nextWell, nextFile, req, events, bulk, call>>

\* ------------------------------------------------------------ table helpers
Range(s) == {s[i] : i \in DOMAIN s}

\* The rows of a list, as a bag.
BagOfSeq(s) == [x \in Range(s) |-> Cardinality({i \in DOMAIN s : s[i] = x})]

\* The rows of one well.
CurvesOfWell(cs, well_id) ==
  [x \in {y \in DOMAIN cs : y.well_id = well_id} |-> cs[x]]

\* get_by_name that never finds the well.
get_by_name_none(ws, name) == {}

\* WellDAO.get_by_name: the rows Well.query.filter_by(name=name) matches;
\* first() returns one of them, or None when there is none.
get_by_name(ws, name) == {w \in ws : w.name = name}

\* delete_by_well_id that deletes nothing.
delete_by_well_id_keep(cs, well_id) == cs

\* CurveDAO.delete_by_well_id: the DELETE statement, over the rows the
\* session sees.
delete_by_well_id(cs, well_id) ==
  [x \in {y \in DOMAIN cs : y.well_id # well_id} |-> cs[x]]

\* FileDAO.get_by_well_id / File.query.filter_by(well_id=...)
get_by_well_id(fs, well_id) == {f \in fs : f.well_id = well_id}

\* upload_to_s3: the key wells/{well_id}/{file_name}
s3_key(well_id, file_name) == <<well_id, file_name>>

\* s3.upload_fileobj: the store after a put under key.
s3_put(bs, key, doc) == [k \in DOMAIN bs \cup {key} |-> IF k = key THEN doc ELSE bs[k]]

\* s3.delete_object: the store without key.
s3_delete(bs, key) == [k \in DOMAIN bs \ {key} |-> bs[k]]

\* ---------------------------------------------------------------- requests
NoSnapshot == [wells |-> {}, files |-> {}, curves |-> EmptyBag, blobs |-> <<>>]

Idle == [kind |-> "idle", pc |-> "idle", process |-> FALSE, todo |-> <<>>,
         doc |-> "none", fname |-> "none", fid |-> 0, key |-> <<0, "none">>,
         well |-> 0, old |-> 0,
         i |-> 0, err |-> "none", pending |-> <<>>, before |-> NoSnapshot]

\* The committed state a handler starts from (kept to state what a failed or
\* rejected call must leave as it was).
Snapshot == [wells |-> wells, files |-> files, curves |-> curves, blobs |-> blobs]

\* db.session.commit() by request r: the rows its session holds become
\* committed rows.
Commit(r) == curves (+) BagOfSeq(req[r].pending)

\* No bulk_insert call and no read-side call is being observed.
NoBulk == [pc |-> "idle", curves |-> <<>>, cb |-> FALSE, i |-> 0, handed |-> <<>>,
           calls |-> <<>>, commits |-> 0]
NoCall == [fn |-> "none"]
NoEvents == [made |-> <<>>, owed |-> <<>>]

\* ------------------------------------------------------------------- Init
\* The store at start-up: empty, or holding what a deployment that parked
\* uploads under the placeholder well (WellDAO.get_or_create_unprocessed)
\* left behind: the well "Unprocessed" and up to two unprocessed files.
LegacyUploads == {<<>>, <<"A1">>, <<"A1", "bad">>}
LegacyName(n) == IF n = 1 THEN "f.las" ELSE "g.las"

Init ==
  /\ req = [r \in ReqIds |-> Idle]
  /\ events = NoEvents /\ bulk = NoBulk /\ call = NoCall
  /\ curves = EmptyBag
  /\ \E up \in LegacyUploads :
       /\ wells = IF up = <<>> THEN {} ELSE {[id |-> 1, name |-> "Unprocessed"]}
       /\ nextWell = IF up = <<>> THEN 1 ELSE 2
       /\ files = {[id |-> n, well_id |-> 1, key |-> s3_key(1, LegacyName(n)),
                    processed |-> FALSE,                    status |-> "active", is_important |-> FALSE] : n \in DOMAIN up}
       /\ nextFile = Len(up) + 1
       /\ blobs = [k \in {s3_key(1, LegacyName(n)) : n \in DOMAIN up} |->
                     up[CHOOSE n \in DOMAIN up : s3_key(1, LegacyName(n)) = k]]

\* ------------------------------------------------------- request plumbing
Set(r, rec) == req' = [req EXCEPT ![r] = rec]
At(r, pc) == req[r].pc = pc

\* The first position of the handler FileController.upload calls for a file.
FirstPc(process) == IF process THEN "pu_lookup" ELSE "u_lookup"

\* FileController.upload: POST /api/files/upload with one or more files,
\* ?process=true|false.  The first file's handler is entered.
UploadInputs(docs, most) ==
  UNION {[1 .. n -> [doc : docs, fname : FileNames]] : n \in 1 .. most}

\* The file records the uploads in flight may still create.
Reserved(r) == IF req[r].kind = "upload" THEN 1 + Len(req[r].todo) ELSE 0

StartUpload(r, maxFiles, docs, most, flags, snap) ==
  /\ At(r, "idle")
  /\ \E process \in flags, fl \in UploadInputs(docs, most) :
       /\ nextFile + Len(fl) + Reserved(1) + Reserved(2) <= maxFiles + 1
       /\ Set(r, [Idle EXCEPT !.kind = "upload", !.pc = FirstPc(process),
                              !.process = process, !.todo = Tail(fl),
                              !.doc = fl[1].doc, !.fname = fl[1].fname,
                              !.before = snap])
  /\ UNCHANGED <<wells, files, curves, blobs, nextWell, nextFile>>

\* ----------------------------------------------- FileService.upload_only
\* Lines 24-30: parse for the well name (any parse failure falls back to
\* "Unknown Well"), then WellDAO.get_by_name.
UploadOnlyName(doc) ==
  IF LAS(doc).ok THEN get_well_name(LAS(doc)) ELSE "Unknown Well"

UploadOnlyLookup(r) ==
  /\ At(r, "u_lookup")
  /\ LET existing == get_by_name(wells, UploadOnlyName(req[r].doc))
     IN IF existing = {}
        THEN Set(r, [req[r] EXCEPT !.pc = "u_create"])
        ELSE \E w \in existing : Set(r, [req[r] EXCEPT !.pc = "u_put", !.well = w.id])
  /\ UNCHANGED <<wells, files, curves, blobs, nextWell, nextFile>>

\* WellDAO.create: insert the well and commit.
UploadOnlyCreate(r) ==
  /\ At(r, "u_create")
  /\ nextWell <= MaxWells
  /\ wells' = wells \cup {[id |-> nextWell, name |-> UploadOnlyName(req[r].doc)]}
  /\ nextWell' = nextWell + 1
  /\ curves' = Commit(r)
  /\ Set(r, [req[r] EXCEPT !.pc = "u_put", !.well = nextWell, !.pending = <<>>])
  /\ UNCHANGED <<files, blobs, nextFile>>

\* upload_to_s3(file_buffer, well.id, file_name)
UploadOnlyPut(r) ==
  /\ At(r, "u_put")
  /\ blobs' = s3_put(blobs, s3_key(req[r].well, req[r].fname), req[r].doc)
  /\ Set(r, [req[r] EXCEPT !.pc = "u_record"])
  /\ UNCHANGED <<wells, files, curves, nextWell, nextFile>>

\* FileDAO.create(..., processed=False): insert the record and commit.  The
\* insert violates files.well_id's foreign key when the well is gone.
UploadOnlyRecord(r) ==
  /\ At(r, "u_record")
  /\ IF \E w \in wells : w.id = req[r].well
     THEN /\ files' = files \cup {[id |-> nextFile, well_id |-> req[r].well,
                                   key |-> s3_key(req[r].well, req[r].fname),
                                   processed |-> FALSE,                                   status |-> "active", is_important |-> FALSE]}
          /\ nextFile' = nextFile + 1
          /\ curves' = Commit(r)
          /\ Set(r, [req[r] EXCEPT !.pc = "returned", !.fid = nextFile, !.pending = <<>>])
     ELSE /\ Set(r, [req[r] EXCEPT !.pc = "raised", !.err = "store", !.pending = <<>>])
          /\ UNCHANGED <<files, nextFile, curves>>
  /\ UNCHANGED <<wells, blobs, nextWell>>

\* -------------------------------------------------- CurveDAO.bulk_insert
\* The batch curves[i : i + BATCH_SIZE].
Batch(rows, i) ==
  SubSeq(rows, i + 1, IF i + BATCH_SIZE < Len(rows) THEN i + BATCH_SIZE ELSE Len(rows))

\* One pass of the loop: db.session.bulk_insert_mappings hands the batch to
\* the session (no commit), then the callback, when given, is called.  The
\* INSERT violates curves.well_id's foreign key when the well is gone.
BulkInsertChunk(r, rows, commitPc) ==
  IF \E w \in wells : w.id = req[r].well
  THEN LET batch == Batch(rows, req[r].i)
       IN Set(r, [req[r] EXCEPT !.pending = @ \o batch,
                                !.i = @ + Len(batch),
                                !.pc = IF req[r].i + Len(batch) >= Len(rows)
                                       THEN commitPc ELSE @])
  ELSE Set(r, [req[r] EXCEPT !.pc = "raised", !.err = "store", !.pending = <<>>])

\* The position after extract_curves: bulk_insert is entered only for a
\* non-empty list (and returns at once for an empty one).
AfterExtract(rows, chunkPc, skipPc) == IF rows # <<>> THEN chunkPc ELSE skipPc

\* -------------------------------------------- FileService.process_upload
Rows(r) == extract_curves(LAS(req[r].doc), req[r].well)

\* Lines 64-73: parse (raises on a malformed document), then get_by_name.
ProcessUploadLookup(r) ==
  /\ At(r, "pu_lookup")
  /\ IF ~LAS(req[r].doc).ok
     THEN Set(r, [req[r] EXCEPT !.pc = "raised", !.err = "parse"])
     ELSE LET existing == get_by_name(wells, get_well_name(LAS(req[r].doc)))
          IN IF existing = {}
             THEN Set(r, [req[r] EXCEPT !.pc = "pu_create"])
             ELSE \E w \in existing :
                    Set(r, [req[r] EXCEPT !.pc = "pu_purge", !.well = w.id])
  /\ UNCHANGED <<wells, files, curves, blobs, nextWell, nextFile>>

\* Line 71: CurveDAO.delete_by_well_id(well.id), DELETE and commit.
ProcessUploadPurge(r) ==
  /\ At(r, "pu_purge")
  /\ curves' = delete_by_well_id(Commit(r), req[r].well)
  /\ Set(r, [req[r] EXCEPT !.pc = "pu_put", !.pending = <<>>])
  /\ UNCHANGED <<wells, files, blobs, nextWell, nextFile>>

\* Line 73: WellDAO.create(well_name)
ProcessUploadCreate(r) ==
  /\ At(r, "pu_create")
  /\ nextWell <= MaxWells
  /\ wells' = wells \cup {[id |-> nextWell, name |-> get_well_name(LAS(req[r].doc))]}
  /\ nextWell' = nextWell + 1
  /\ curves' = Commit(r)
  /\ Set(r, [req[r] EXCEPT !.pc = "pu_put", !.well = nextWell, !.pending = <<>>])
  /\ UNCHANGED <<files, blobs, nextFile>>

\* Line 77: upload_to_s3
ProcessUploadPut(r) ==
  /\ At(r, "pu_put")
  /\ blobs' = s3_put(blobs, s3_key(req[r].well, req[r].fname), req[r].doc)
  /\ Set(r, [req[r] EXCEPT !.pc = "pu_record"])
  /\ UNCHANGED <<wells, files, curves, nextWell, nextFile>>

\* Lines 80-90: FileDAO.create(..., processed=True) and commit, then
\* extract_curves.
ProcessUploadRecord(r) ==
  /\ At(r, "pu_record")
  /\ IF \E w \in wells : w.id = req[r].well
     THEN /\ files' = files \cup {[id |-> nextFile, well_id |-> req[r].well,
                                   key |-> s3_key(req[r].well, req[r].fname),
                                   processed |-> TRUE,                                   status |-> "active", is_important |-> FALSE]}
          /\ nextFile' = nextFile + 1
          /\ curves' = Commit(r)
          /\ Set(r, [req[r] EXCEPT !.pc = AfterExtract(Rows(r), "pu_chunk", "returned"),
                                   !.fid = nextFile, !.i = 0, !.pending = <<>>])
     ELSE /\ Set(r, [req[r] EXCEPT !.pc = "raised", !.err = "store", !.pending = <<>>])
          /\ UNCHANGED <<files, nextFile, curves>>
  /\ UNCHANGED <<wells, blobs, nextWell>>

\* Line 91: CurveDAO.bulk_insert(curves), one batch.
ProcessUploadChunk(r) ==
  /\ At(r, "pu_chunk")
  /\ BulkInsertChunk(r, Rows(r), "pu_commit")
  /\ UNCHANGED <<wells, files, curves, blobs, nextWell, nextFile>>

\* bulk_insert's final db.session.commit()
ProcessUploadCommit(r) ==
  /\ At(r, "pu_commit")
  /\ curves' = Commit(r)
  /\ Set(r, [req[r] EXCEPT !.pc = "returned", !.pending = <<>>])
  /\ UNCHANGED <<wells, files, blobs, nextWell, nextFile>>

\* ------------------------------------- FileService.process_existing_file
\* FileController.process: POST /api/files/<id>/process
StartProcess(r, snap) ==
  /\ At(r, "idle")
  /\ \E fid \in 1 .. MaxFiles :
       Set(r, [Idle EXCEPT !.kind = "process", !.pc = "p_get", !.fid = fid,
                           !.before = snap])
  /\ UNCHANGED <<wells, files, curves, blobs, nextWell, nextFile>>

\* ProcessGet without the processed check.
ProcessGet_unchecked(r) ==
  /\ At(r, "p_get")
  /\ LET fm == {f \in files : f.id = req[r].fid}
     IN IF fm = {}
        THEN Set(r, [req[r] EXCEPT !.pc = "raised", !.err = "File not found"])
        ELSE \E f \in fm :
               Set(r, [req[r] EXCEPT !.pc = "p_download", !.old = f.well_id,
                                     !.key = f.key])
  /\ UNCHANGED <<wells, files, curves, blobs, nextWell, nextFile>>

\* Lines 111-118: FileDAO.get_by_id and the two rejections.
ProcessGet(r) ==
  /\ At(r, "p_get")
  /\ LET fm == {f \in files : f.id = req[r].fid}
     IN IF fm = {}
        THEN Set(r, [req[r] EXCEPT !.pc = "raised", !.err = "File not found"])
        ELSE \E f \in fm :
               IF f.processed
               THEN Set(r, [req[r] EXCEPT !.pc = "raised",
                                          !.err = "File already processed"])
               ELSE Set(r, [req[r] EXCEPT !.pc = "p_download", !.old = f.well_id,
                                          !.key = f.key])
  /\ UNCHANGED <<wells, files, curves, blobs, nextWell, nextFile>>

\* ProcessDownload in a handler that purged the file's well before fetching.
ProcessDownload_purged(r) ==
  /\ At(r, "p_download")
  /\ \/ /\ req[r].key \in DOMAIN blobs
        /\ Set(r, [req[r] EXCEPT !.pc = "p_parse", !.doc = blobs[req[r].key]])
        /\ UNCHANGED curves
     \/ /\ Set(r, [req[r] EXCEPT !.pc = "raised", !.err = "download"])
        /\ curves' = delete_by_well_id(curves, req[r].old)
  /\ UNCHANGED <<wells, files, blobs, nextWell, nextFile>>

\* Line 120: download_from_s3(file_meta.s3_url).  get_object raises when the
\* key is absent, and may raise on any call.
ProcessDownload(r) ==
  /\ At(r, "p_download")
  /\ \/ /\ req[r].key \in DOMAIN blobs
        /\ Set(r, [req[r] EXCEPT !.pc = "p_parse", !.doc = blobs[req[r].key]])
     \/ Set(r, [req[r] EXCEPT !.pc = "raised", !.err = "download"])
  /\ UNCHANGED <<wells, files, curves, blobs, nextWell, nextFile>>

\* Lines 123-126: parse (raises on a malformed document), get_well_name,
\* WellDAO.get_by_name.
ProcessParse(r) ==
  /\ At(r, "p_parse")
  /\ IF ~LAS(req[r].doc).ok
     THEN Set(r, [req[r] EXCEPT !.pc = "raised", !.err = "parse"])
     ELSE LET existing == get_by_name(wells, get_well_name(LAS(req[r].doc)))
          IN IF existing = {}
             THEN Set(r, [req[r] EXCEPT !.pc = "p_create"])
             ELSE \E w \in existing :
                    Set(r, [req[r] EXCEPT !.pc = "p_purge", !.well = w.id])
  /\ UNCHANGED <<wells, files, curves, blobs, nextWell, nextFile>>

\* Lines 128-130 and 134: the well exists; CurveDAO.delete_by_well_id
\* (DELETE and commit), then extract_curves.
ProcessPurge(r) ==
  /\ At(r, "p_purge")
  /\ curves' = delete_by_well_id(Commit(r), req[r].well)
  /\ Set(r, [req[r] EXCEPT !.pc = AfterExtract(Rows(r), "p_chunk", "p_update"),
                           !.i = 0, !.pending = <<>>])
  /\ UNCHANGED <<wells, files, blobs, nextWell, nextFile>>

\* Lines 132 and 134: WellDAO.create(well_name), then extract_curves.
ProcessCreate(r) ==
  /\ At(r, "p_create")
  /\ nextWell <= MaxWells
  /\ wells' = wells \cup {[id |-> nextWell, name |-> get_well_name(LAS(req[r].doc))]}
  /\ nextWell' = nextWell + 1
  /\ curves' = Commit(r)
  /\ Set(r, [req[r] EXCEPT
               !.pc = AfterExtract(extract_curves(LAS(req[r].doc), nextWell),
                                   "p_chunk", "p_update"),
               !.well = nextWell, !.i = 0, !.pending = <<>>])
  /\ UNCHANGED <<files, blobs, nextFile>>

\* Line 144: CurveDAO.bulk_insert(curves, progress_callback), one batch.
ProcessChunk(r) ==
  /\ At(r, "p_chunk")
  /\ BulkInsertChunk(r, Rows(r), "p_commit")
  /\ UNCHANGED <<wells, files, curves, blobs, nextWell, nextFile>>

\* bulk_insert's final db.session.commit()
ProcessCommit(r) ==
  /\ At(r, "p_commit")
  /\ curves' = Commit(r)
  /\ Set(r, [req[r] EXCEPT !.pc = "p_update", !.pending = <<>>])
  /\ UNCHANGED <<wells, files, blobs, nextWell, nextFile>>

\* An argument that is given; None is one that is not.
Some(x) == [k |-> "some", v |-> x]

\* update_file that clears the processed flag when it is not told to set it.
update_file_unprocess(fs, file_id, status, is_important, well_id, processed) ==
  {IF f.id = file_id
   THEN [f EXCEPT !.status = IF status.k # "none" THEN status.v ELSE @,
                  !.is_important = IF is_important.k # "none" THEN is_important.v ELSE @,
                  !.well_id = IF well_id.k # "none" THEN well_id.v ELSE @,
                  !.processed = IF processed.k # "none" THEN processed.v ELSE FALSE]
   ELSE f : f \in fs}

\* FileDAO.update_file: None when the record is gone, else each field that
\* is given is set, and the session is committed.
update_file(fs, file_id, status, is_important, well_id, processed) ==
  {IF f.id = file_id
   THEN [f EXCEPT !.status = IF status.k # "none" THEN status.v ELSE @,
                  !.is_important = IF is_important.k # "none" THEN is_important.v ELSE @,
                  !.well_id = IF well_id.k # "none" THEN well_id.v ELSE @,
                  !.processed = IF processed.k # "none" THEN processed.v ELSE @]
   ELSE f : f \in fs}

\* Lines 146-147: FileDAO.update_file(file_id, well_id=well.id, processed=True)
ProcessUpdate(r) ==
  /\ At(r, "p_update")
  /\ files' = update_file(files, req[r].fid, None, None, Some(req[r].well), Some(TRUE))
  /\ IF \E f \in files : f.id = req[r].fid
     THEN /\ curves' = Commit(r)
          /\ Set(r, [req[r] EXCEPT !.pc = IF req[r].old # req[r].well
                                          THEN "p_files_left" ELSE "p_done",
                                   !.pending = <<>>])
     ELSE /\ Set(r, [req[r] EXCEPT !.pc = IF req[r].old # req[r].well
                                          THEN "p_files_left" ELSE "p_done"])
          /\ UNCHANGED curves
  /\ UNCHANGED <<wells, blobs, nextWell, nextFile>>

\* ProcessFilesLeft that never finds the placeholder empty.
ProcessFilesLeft_never(r) ==
  /\ At(r, "p_files_left")
  /\ Set(r, [req[r] EXCEPT !.pc = "p_done"])
  /\ UNCHANGED <<wells, files, curves, blobs, nextWell, nextFile>>

\* Lines 148-151: the file left its well; is that well an empty placeholder?
ProcessFilesLeft(r) ==
  /\ At(r, "p_files_left")
  /\ LET files_left == get_by_well_id(files, req[r].old)
         old_well == {w \in wells : w.id = req[r].old}
     IN Set(r, [req[r] EXCEPT !.pc =
                  IF files_left = {} /\ \E w \in old_well : w.name = "Unprocessed"
                  THEN "p_del_curves" ELSE "p_done"])
  /\ UNCHANGED <<wells, files, curves, blobs, nextWell, nextFile>>

\* Line 152: CurveDAO.delete_by_well_id(old_well_id)
ProcessDelCurves(r) ==
  /\ At(r, "p_del_curves")
  /\ curves' = delete_by_well_id(Commit(r), req[r].old)
  /\ Set(r, [req[r] EXCEPT !.pc = "p_del_well", !.pending = <<>>])
  /\ UNCHANGED <<wells, files, blobs, nextWell, nextFile>>

\* WellDAO.delete_by_id: False when the well is gone; else session.delete
\* and commit, which cascades to the well's curves and files (Well.curves,
\* Well.files: cascade="all, delete-orphan").
DeleteWellById(r, well_id) ==
  IF \E w \in wells : w.id = well_id
  THEN /\ wells' = {w \in wells : w.id # well_id}
       /\ files' = {f \in files : f.well_id # well_id}
       /\ curves' = delete_by_well_id(Commit(r), well_id)
  ELSE UNCHANGED <<wells, files, curves>>

\* Line 153: WellDAO.delete_by_id(old_well_id)
ProcessDelWell(r) ==
  /\ At(r, "p_del_well")
  /\ DeleteWellById(r, req[r].old)
  /\ Set(r, [req[r] EXCEPT !.pc = "p_done",
               !.pending = IF \E w \in wells : w.id = req[r].old THEN <<>> ELSE @])
  /\ UNCHANGED <<blobs, nextWell, nextFile>>

\* Lines 155-160: the last log, and the return.
ProcessDone(r) ==
  /\ At(r, "p_done")
  /\ Set(r, [req[r] EXCEPT !.pc = "returned"])
  /\ UNCHANGED <<wells, files, curves, blobs, nextWell, nextFile>>

\* ------------------------------------------------ FileDAO.delete_permanent
\* FileController.delete_permanent: DELETE /api/files/<id>
StartDelete(r, snap) ==
  /\ At(r, "idle")
  /\ \E fid \in 1 .. MaxFiles :
       Set(r, [Idle EXCEPT !.kind = "delete", !.pc = "d_get", !.fid = fid,
                           !.before = snap])
  /\ UNCHANGED <<wells, files, curves, blobs, nextWell, nextFile>>

\* Lines 96-100: File.query.get; False when there is no such record.
DeleteGet(r) ==
  /\ At(r, "d_get")
  /\ LET fm == {f \in files : f.id = req[r].fid}
     IN IF fm = {}
        THEN Set(r, [req[r] EXCEPT !.pc = "returned", !.err = "File not found"])
        ELSE \E f \in fm :
               Set(r, [req[r] EXCEPT !.pc = "d_s3", !.key = f.key, !.well = f.well_id])
  /\ UNCHANGED <<wells, files, curves, blobs, nextWell, nextFile>>

\* Line 102: delete_from_s3, which swallows the store's ClientError.
DeleteS3(r) ==
  /\ At(r, "d_s3")
  /\ \/ blobs' = s3_delete(blobs, req[r].key)
     \/ UNCHANGED blobs
  /\ Set(r, [req[r] EXCEPT !.pc = "d_record"])
  /\ UNCHANGED <<wells, files, curves, nextWell, nextFile>>

\* Lines 103-104: db.session.delete(f), commit.
DeleteRecord(r) ==
  /\ At(r, "d_record")
  /\ files' = {f \in files : f.id # req[r].fid}
  /\ curves' = Commit(r)
  /\ Set(r, [req[r] EXCEPT !.pc = "d_count", !.pending = <<>>])
  /\ UNCHANGED <<wells, blobs, nextWell, nextFile>>

\* DeleteCount that takes every deleted file for the well's last.
DeleteCount_always(r) ==
  /\ At(r, "d_count")
  /\ Set(r, [req[r] EXCEPT !.pc = "d_curves"])
  /\ UNCHANGED <<wells, files, curves, blobs, nextWell, nextFile>>

\* Lines 106-107: remaining = count of the well's files.
DeleteCount(r) ==
  /\ At(r, "d_count")
  /\ Set(r, [req[r] EXCEPT !.pc = IF get_by_well_id(files, req[r].well) = {}
                                  THEN "d_curves" ELSE "returned"])
  /\ UNCHANGED <<wells, files, curves, blobs, nextWell, nextFile>>

\* Line 108: CurveDAO.delete_by_well_id(well_id)
DeleteCurves(r) ==
  /\ At(r, "d_curves")
  /\ curves' = delete_by_well_id(Commit(r), req[r].well)
  /\ Set(r, [req[r] EXCEPT !.pc = "d_well", !.pending = <<>>])
  /\ UNCHANGED <<wells, files, blobs, nextWell, nextFile>>

\* Line 109: WellDAO.delete_by_id(well_id)
DeleteWell(r) ==
  /\ At(r, "d_well")
  /\ DeleteWellById(r, req[r].well)
  /\ Set(r, [req[r] EXCEPT !.pc = "returned", !.pending = <<>>])
  /\ UNCHANGED <<blobs, nextWell, nextFile>>

\* ----------------------------------------------------- failure and return
\* Where something other than the store can raise: the event sink
\* (process_existing_file logs between its store calls), the blob store's
\* put, and the building of a batch's mappings.
NonStoreFailure(q) == q.kind = "process" \/ q.pc \in {"u_put", "pu_put", "pu_chunk"}

\* The handler raises at its current position, before its next step takes
\* effect.  No handler rolls back: the rows handed to the session stay in it
\* (keep), unless the store itself raised, which aborts the transaction.
Raise(r) ==
  /\ req[r].pc \notin {"idle", "returned", "raised"}
  /\ \E keep \in IF req[r].pending # <<>> /\ NonStoreFailure(req[r])
                THEN BOOLEAN ELSE {FALSE} :
       Set(r, [req[r] EXCEPT !.pc = "raised", !.err = "error",
                             !.pending = IF keep THEN @ ELSE <<>>])
  /\ UNCHANGED <<wells, files, curves, blobs, nextWell, nextFile>>

\* FileController.upload's loop: the handler's result or error is appended
\* and the next file is handled, in the same session.
NextFile(r) ==
  /\ req[r].pc \in {"returned", "raised"}
  /\ req[r].kind = "upload" /\ req[r].todo # <<>>
  /\ Set(r, [req[r] EXCEPT !.pc = FirstPc(req[r].process), !.todo = Tail(@),
                           !.doc = req[r].todo[1].doc, !.fname = req[r].todo[1].fname,
                           !.fid = 0, !.well = 0, !.i = 0, !.err = "none",
                           !.before = Snapshot])
  /\ UNCHANGED <<wells, files, curves, blobs, nextWell, nextFile>>

\* The response is sent and the request's session is removed, which rolls
\* back whatever it still holds (db.init_app's teardown).
EndRequest(r) ==
  /\ req[r].pc \in {"returned", "raised"}
  /\ ~(req[r].kind = "upload" /\ req[r].todo # <<>>)
  /\ Set(r, Idle)
  /\ UNCHANGED <<wells, files, curves, blobs, nextWell, nextFile>>

\* ------------------------------------------------------------------- Next
UploadOnlySteps(r) ==
  \/ UploadOnlyLookup(r) \/ UploadOnlyCreate(r) \/ UploadOnlyPut(r) \/ UploadOnlyRecord(r)

ProcessUploadSteps(r) ==
  \/ ProcessUploadLookup(r) \/ ProcessUploadPurge(r) \/ ProcessUploadCreate(r)
  \/ ProcessUploadPut(r) \/ ProcessUploadRecord(r)
  \/ ProcessUploadChunk(r) \/ ProcessUploadCommit(r)

ProcessSteps(r) ==
  \/ ProcessGet(r) \/ ProcessDownload(r) \/ ProcessParse(r)
  \/ ProcessPurge(r) \/ ProcessCreate(r) \/ ProcessChunk(r) \/ ProcessCommit(r)
  \/ ProcessUpdate(r) \/ ProcessFilesLeft(r) \/ ProcessDelCurves(r)
  \/ ProcessDelWell(r) \/ ProcessDone(r)

DeleteSteps(r) ==
  \/ DeleteGet(r) \/ DeleteS3(r) \/ DeleteRecord(r)
  \/ DeleteCount(r) \/ DeleteCurves(r) \/ DeleteWell(r)

\* One request at a time, every handler, with failures.
Next ==
  /\ \/ StartUpload(1, MaxFiles, Docs, MaxUploadFiles, BOOLEAN, Snapshot)
     \/ StartProcess(1, Snapshot) \/ StartDelete(1, Snapshot)
     \/ UploadOnlySteps(1) \/ ProcessUploadSteps(1) \/ ProcessSteps(1) \/ DeleteSteps(1)
     \/ Raise(1) \/ NextFile(1) \/ EndRequest(1)
  /\ UNCHANGED observers

Spec == Init /\ [][Next]_vars

\* Two requests in flight, interleaving at their store and blob calls:
\* single-file uploads without processing, process and delete requests.  No
\* snapshot is kept: "before the call" names no single state here.
NextConc ==
  /\ \E r \in ReqIds :
       \/ StartUpload(r, ConcMaxFiles, ConcDocs, 1, {FALSE}, NoSnapshot)
       \/ StartProcess(r, NoSnapshot) \/ StartDelete(r, NoSnapshot)
       \/ UploadOnlySteps(r) \/ ProcessSteps(r) \/ DeleteSteps(r)
       \/ EndRequest(r)
  /\ UNCHANGED observers

SpecConc == Init /\ [][NextConc]_vars

\* ------------------------------------------------- the progress/event sink
\* An emit("process_log", {file_id, step, ...}) call: by the service's log
\* and progress_cb, or by the controller's except clauses.  inserted is the
\* count an "insert" event carries.
Event(by, file_id, step, inserted) ==
  [by |-> by, file_id |-> file_id, step |-> step, inserted |-> inserted]

\* process_existing_file.log
log(file_id, step) == Event("service", file_id, step, 0)

\* FileController.process, lines 151 and 155: _emit_process in the except
\* clauses.
emit_process(file_id) == Event("controller", file_id, "error", 0)

\* Line 138, in batches: emit_interval = max(50000, len(curves) // 20), and
\* 50000 is five batches.
emit_interval(total) ==
  IF 5 * BATCH_SIZE > total \div 20 THEN 5 * BATCH_SIZE ELSE total \div 20

\* last_emitted[0]: the count of the request's last "insert" event.
last_emitted(made) ==
  LET ins == {k \in DOMAIN made : made[k].ev.step = "insert" /\ made[k].ok}
  IN IF ins = {} THEN 0 ELSE made[CHOOSE k \in ins : \A m \in ins : m <= k].ev.inserted

\* progress_cb(inserted, total), lines 140-143: the event it emits, if any.
progress_cb(file_id, made, inserted, total) ==
  IF inserted = total \/ inserted - last_emitted(made) >= emit_interval(total)
  THEN <<Event("service", file_id, "insert", inserted)>> ELSE <<>>

\* The log calls the handler makes on entering a position, before the
\* store or blob call of that position.
LogBefore(q) ==
  CASE q.pc = "p_get"      -> <<log(q.fid, "start")>>
    [] q.pc = "p_download" -> <<log(q.fid, "download")>>
    [] q.pc = "p_parse"    -> <<log(q.fid, "parse")>>
    [] q.pc = "p_purge"    -> <<log(q.fid, "well")>>
    [] q.pc = "p_done"     -> <<log(q.fid, "done")>>
    [] q.pc = "raised"     -> <<emit_process(q.fid)>>
    [] OTHER               -> <<>>

\* The log calls the handler makes after the step that took it from q to
\* q2: the error logs of the two rejections, the well name, the created
\* well, the extracted count, the progress callback, the insert's end, the
\* removed placeholder.
LogAfter(q, q2, made) ==
  CASE q.pc = "p_get" /\ q2.pc = "raised"   -> <<log(q.fid, "error")>>
    [] q.pc = "p_parse" /\ q2.pc # "raised" -> <<log(q.fid, "well")>>
    [] q.pc = "p_purge"                     -> <<log(q.fid, "curves")>>
    [] q.pc = "p_create"                    -> <<log(q.fid, "well"), log(q.fid, "curves")>>
    [] q.pc = "p_chunk" /\ q2.pc # "raised" ->
         progress_cb(q.fid, made, q2.i, Len(extract_curves(LAS(q.doc), q.well)))
    [] q.pc = "p_commit"                    -> <<log(q.fid, "curves_done")>>
    [] q.pc = "p_del_well"                  -> <<log(q.fid, "well")>>
    [] OTHER                                -> <<>>

\* FileController.process: the request starts with its first log owed.
StartProcessEmit(r) ==
  /\ StartProcess(r, Snapshot)
  /\ events' = [made |-> <<>>, owed |-> LogBefore(req'[r])]
  /\ UNCHANGED <<bulk, call>>

\* A step of process_existing_file, once the logs before it are made.
ProcessStepEmit(r) ==
  /\ events.owed = <<>>
  /\ ProcessSteps(r)
  /\ events' = [events EXCEPT
       !.owed = LogAfter(req[r], req'[r], events.made) \o LogBefore(req'[r])]
  /\ UNCHANGED <<bulk, call>>

\* socketio.emit accepts the event.
EmitOk(r) ==
  /\ req[r].kind = "process" /\ events.owed # <<>>
  /\ events' = [made |-> Append(events.made, [ev |-> Head(events.owed), ok |-> TRUE]),
                owed |-> Tail(events.owed)]
  /\ UNCHANGED <<store, req, bulk, call>>

\* socketio.emit raises.  In the service nothing catches it: the handler
\* raises where it stands and the controller's except clause makes its own
\* emit call (line 155).  In the except clause the exception leaves the
\* controller.
EmitFail(r) ==
  /\ req[r].kind = "process" /\ events.owed # <<>>
  /\ LET e == Head(events.owed)
     IN /\ events' = [made |-> Append(events.made, [ev |-> e, ok |-> FALSE]),
                      owed |-> IF e.by = "service" THEN <<emit_process(req[r].fid)>>
                               ELSE <<>>]
        /\ IF e.by = "service"
           THEN Set(r, [req[r] EXCEPT !.pc = "raised", !.err = "emit"])
           ELSE UNCHANGED req
  /\ UNCHANGED <<store, bulk, call>>

\* The response is sent once the handler has made its calls.
EndRequestEmit(r) ==
  /\ events.owed = <<>>
  /\ EndRequest(r)
  /\ UNCHANGED observers

\* One request at a time: uploads without processing, and process requests
\* with their emit calls, each of which the sink accepts or fails.
NextEmit ==
  \/ /\ StartUpload(1, MaxFiles, Docs, 1, {FALSE}, Snapshot)
     /\ UNCHANGED observers
  \/ /\ UploadOnlySteps(1)
     /\ UNCHANGED observers
  \/ StartProcessEmit(1) \/ ProcessStepEmit(1)
  \/ EmitOk(1) \/ EmitFail(1) \/ EndRequestEmit(1)

SpecEmit == Init /\ [][NextEmit]_vars


\* ------------------------------------- CurveDAO.bulk_insert, on its own
\* The Curve objects a caller passes: samples of well 1.
BulkRows ==
  {[well_id |-> 1, depth |-> Num(1), curve_name |-> "GR", value |-> v] : v \in {Num(10), None}}

BulkInputs == UNION {[1 .. n -> BulkRows] : n \in 0 .. MaxBulk}

\* A store holding well 1 and no sample; no bulk_insert call made yet.
InitBulk ==
  /\ wells = {[id |-> 1, name |-> "A"]} /\ nextWell = 2
  /\ files = {} /\ nextFile = 1 /\ blobs = <<>> /\ curves = EmptyBag
  /\ req = [r \in ReqIds |-> Idle]
  /\ events = NoEvents /\ bulk = NoBulk /\ call = NoCall

\* Lines 20-22: total = len(curves); an empty list returns at once.
BulkInsertCall ==
  /\ bulk.pc = "idle"
  /\ \E input \in BulkInputs, cb \in BOOLEAN :
       bulk' = [NoBulk EXCEPT !.pc = IF Len(input) = 0 THEN "returned" ELSE "batch",
                              !.curves = input, !.cb = cb]
  /\ UNCHANGED <<store, req, events, call>>

\* BulkInsertBatch that commits every batch it hands over.
BulkInsertBatch_commits ==
  /\ bulk.pc = "batch"
  /\ LET total == Len(bulk.curves)
         batch == Batch(bulk.curves, bulk.i)
         inserted == IF bulk.i + Len(batch) < total THEN bulk.i + Len(batch) ELSE total
     IN /\ bulk' = [bulk EXCEPT
             !.handed = @ \o batch,
             !.calls = IF bulk.cb THEN Append(@, <<inserted, total>>) ELSE @,
             !.commits = @ + 1,
             !.i = @ + BATCH_SIZE,
             !.pc = IF bulk.i + BATCH_SIZE < total THEN "batch" ELSE "commit"]
        /\ curves' = curves (+) BagOfSeq(batch)
  /\ UNCHANGED <<wells, files, blobs, nextWell, nextFile, req, events, call>>

\* BulkInsertBatch whose callback reports the batch's start index.
BulkInsertBatch_start ==
  /\ bulk.pc = "batch"
  /\ LET total == Len(bulk.curves)
         batch == Batch(bulk.curves, bulk.i)
     IN bulk' = [bulk EXCEPT
          !.handed = @ \o batch,
          !.calls = IF bulk.cb THEN Append(@, <<bulk.i, total>>) ELSE @,
          !.i = @ + BATCH_SIZE,
          !.pc = IF bulk.i + BATCH_SIZE < total THEN "batch" ELSE "commit"]
  /\ UNCHANGED <<store, req, events, call>>

\* Lines 24-32, one pass of the loop over range(0, total, BATCH_SIZE): the
\* batch is handed to the session (bulk_insert_mappings, no commit), then
\* progress_callback(min(i + len(batch), total), total) when one is given.
BulkInsertBatch ==
  /\ bulk.pc = "batch"
  /\ LET total == Len(bulk.curves)
         batch == Batch(bulk.curves, bulk.i)
         inserted == IF bulk.i + Len(batch) < total THEN bulk.i + Len(batch) ELSE total
     IN bulk' = [bulk EXCEPT
          !.handed = @ \o batch,
          !.calls = IF bulk.cb THEN Append(@, <<inserted, total>>) ELSE @,
          !.i = @ + BATCH_SIZE,
          !.pc = IF bulk.i + BATCH_SIZE < total THEN "batch" ELSE "commit"]
  /\ UNCHANGED <<store, req, events, call>>

\* Line 33: db.session.commit(), after the loop.
BulkInsertCommit ==
  /\ bulk.pc = "commit"
  /\ curves' = curves (+) BagOfSeq(bulk.handed)
  /\ bulk' = [bulk EXCEPT !.commits = @ + 1, !.pc = "returned"]
  /\ UNCHANGED <<wells, files, blobs, nextWell, nextFile, req, events, call>>

NextBulk == BulkInsertCall \/ BulkInsertBatch \/ BulkInsertCommit

SpecBulk == InitBulk /\ [][NextBulk]_vars

\* ------------------------------------------------------------- read side
\* Curve.depth order: numbers by value, infinity above every number.
depth_le(a, b) == b.k = "inf" \/ (a.k = "num" /\ b.k = "num" /\ a.v <= b.v)
depth_lt(a, b) == depth_le(a, b) /\ a # b

\* sorted(set(...)) of depths: the ascending list without duplicates.
sorted(ds) ==
  CHOOSE s \in [1 .. Cardinality(ds) -> ds] :
    \A i, j \in 1 .. Cardinality(ds) : i < j => depth_lt(s[i], s[j])

\* matching with the upper bound excluded.
matching_exclusive(cs, well_id, depth_min, depth_max, curve_names) ==
  [x \in {y \in DOMAIN cs :
            /\ y.well_id = well_id
            /\ depth_le(depth_min, y.depth) /\ depth_lt(y.depth, depth_max)
            /\ curve_names # <<>> => y.curve_name \in Range(curve_names)}
     |-> cs[x]]

\* CurveDAO.get_by_well_and_depth_range: the rows the filters keep (an
\* empty or absent curve_names adds no filter), ...
matching(cs, well_id, depth_min, depth_max, curve_names) ==
  [x \in {y \in DOMAIN cs :
            /\ y.well_id = well_id
            /\ depth_le(depth_min, y.depth) /\ depth_le(y.depth, depth_max)
            /\ curve_names # <<>> => y.curve_name \in Range(curve_names)}
     |-> cs[x]]

\* ... in an order ORDER BY depth allows (rows of equal depth come in any
\* order): the lists the call may return.
get_by_well_and_depth_range(cs, well_id, depth_min, depth_max, curve_names) ==
  LET m == matching(cs, well_id, depth_min, depth_max, curve_names)
      n == BagCardinality(m)
  IN {s \in [1 .. n -> DOMAIN m] :
        /\ BagOfSeq(s) = m
        /\ \A i, j \in 1 .. n : i < j => depth_le(s[i].depth, s[j].depth)}

\* get_depth_range_for_well answering (0, 0) for a well without samples.
get_depth_range_for_well_zero(cs, well_id) ==
  LET ds == {x.depth : x \in DOMAIN CurvesOfWell(cs, well_id)}
  IN IF ds = {} THEN [k |-> "range", min |-> Num(0), max |-> Num(0)]
     ELSE [k |-> "range", min |-> sorted(ds)[1], max |-> sorted(ds)[Cardinality(ds)]]

\* CurveDAO.get_depth_range_for_well: min and max of the well's depths, None
\* when the aggregate is NULL (no row).
get_depth_range_for_well(cs, well_id) ==
  LET ds == {x.depth : x \in DOMAIN CurvesOfWell(cs, well_id)}
  IN IF ds = {} THEN [k |-> "none"]
     ELSE [k |-> "range", min |-> sorted(ds)[1], max |-> sorted(ds)[Cardinality(ds)]]

\* How many times a name occurs in the requested list.
Occurrences(cn, curve_names) ==
  Cardinality({k \in DOMAIN curve_names : curve_names[k] = cn})

\* series_of that appends each record's value as it comes, without the
\* depth index.
series_of_dense(cn, records, depth_set, curve_names) ==
  LET own == SelectSeq(records, LAMBDA r : r.curve_name = cn)
  IN [i \in 1 .. Len(depth_set) * Occurrences(cn, curve_names) |->
        IF i <= Len(own) THEN own[i].value ELSE None]

\* series[cn] once both loops of get_curve_data have run: one None per depth
\* and per occurrence of cn in curve_names (lines 30-32), then the value of
\* each record written at its depth's index (lines 33-35; a later record
\* overwrites an earlier one).
series_of(cn, records, depth_set, curve_names) ==
  [i \in 1 .. Len(depth_set) * Occurrences(cn, curve_names) |->
     LET rs == {k \in DOMAIN records :
                  /\ records[k].curve_name = cn
                  /\ i <= Len(depth_set) /\ records[k].depth = depth_set[i]}
     IN IF rs = {} THEN None
        ELSE records[CHOOSE k \in rs : \A m \in rs : m <= k].value]

\* VisualizationService.get_curve_data, for the records the query returned:
\* None for an unknown well; an IndexError at line 35 when a record's curve
\* is not a requested name (series[name] is then an empty list); else the
\* dict of the depth list and one list per requested name.
get_curve_data(ws, well_id, curve_names, records) ==
  IF ~\E w \in ws : w.id = well_id THEN [k |-> "none"]
  ELSE IF \E k \in DOMAIN records : records[k].curve_name \notin Range(curve_names)
  THEN [k |-> "raised"]
  ELSE LET depth_set == sorted({records[k].depth : k \in DOMAIN records})
       IN [k |-> "dict", depth |-> depth_set,
           series |-> [cn \in Range(curve_names) |->
                         series_of(cn, records, depth_set, curve_names)]]

\* The stored samples and the arguments of the observed calls.
StoredRows ==
  {[well_id |-> 1, depth |-> Num(d), curve_name |-> c, value |-> v] :
     d \in 1 .. 2, c \in {"GR", "RHOB"}, v \in {Num(10), None}}
  \cup {[well_id |-> 2, depth |-> Num(1), curve_name |-> "GR", value |-> Num(10)]}

StoredTables == {BagOfSeq(s) : s \in UNION {[1 .. n -> StoredRows] : n \in 0 .. MaxStored}}

WellArgs == {1, 3}
DepthArgs == {Num(1), Num(2)}
NameArgs == UNION {[1 .. n -> {"GR", "RHOB", "NPHI"}] : n \in 0 .. MaxNames}

\* A store holding wells 1 and 2 and any table of samples; no call made yet.
InitQuery ==
  /\ wells = {[id |-> 1, name |-> "A"], [id |-> 2, name |-> "B"]} /\ nextWell = 3
  /\ files = {} /\ nextFile = 1 /\ blobs = <<>>
  /\ curves \in StoredTables
  /\ req = [r \in ReqIds |-> Idle]
  /\ events = NoEvents /\ bulk = NoBulk /\ call = NoCall

\* A call of CurveDAO.get_by_well_and_depth_range.
GetByWellAndDepthRange ==
  /\ call = NoCall
  /\ \E well_id \in WellArgs, depth_min \in DepthArgs, depth_max \in DepthArgs,
        curve_names \in NameArgs :
       \E records \in get_by_well_and_depth_range(curves, well_id, depth_min,
                                                  depth_max, curve_names) :
         call' = [fn |-> "get_by_well_and_depth_range", well_id |-> well_id,
                  depth_min |-> depth_min, depth_max |-> depth_max,
                  curve_names |-> curve_names, result |-> records]
  /\ UNCHANGED <<store, req, events, bulk>>

\* A call of VisualizationService.get_curve_data.
GetCurveData ==
  /\ call = NoCall
  /\ \E well_id \in WellArgs, depth_min \in DepthArgs, depth_max \in DepthArgs,
        curve_names \in NameArgs :
       \E records \in get_by_well_and_depth_range(curves, well_id, depth_min,
                                                  depth_max, curve_names) :
         call' = [fn |-> "get_curve_data", well_id |-> well_id,
                  depth_min |-> depth_min, depth_max |-> depth_max,
                  curve_names |-> curve_names,
                  result |-> get_curve_data(wells, well_id, curve_names, records)]
  /\ UNCHANGED <<store, req, events, bulk>>

\* A call of CurveDAO.get_depth_range_for_well.
GetDepthRangeForWell ==
  /\ call = NoCall
  /\ \E well_id \in {1, 2, 3} :
       call' = [fn |-> "get_depth_range_for_well", well_id |-> well_id,
                result |-> get_depth_range_for_well(curves, well_id)]
  /\ UNCHANGED <<store, req, events, bulk>>

NextQuery == GetByWellAndDepthRange \/ GetCurveData \/ GetDepthRangeForWell

SpecQuery == InitQuery /\ [][NextQuery]_vars

\* ------------------------------------ LASParserService.extract_curves
\* The documents lasio.read may return: up to MaxCurves declared curves,
\* depth first, and up to MaxRows rows of floats.  A depth is a number,
\* not-a-number or infinite; a value is a number, not-a-number or one of
\* the two large sentinels.
Mnemonics == <<"DEPT", "GR", "RHOB", "NPHI", "DT">>
DepthTokens == {Num(1), Num(2), NaN, Inf}
ValueTokens(ci) ==
  CASE ci = 2 -> {Num(10), NaN, Big30}
    [] ci = 3 -> {Num(10), Big31}
    [] OTHER  -> {Num(10), NaN}

\* The rows of n floats.
RECURSIVE LasRows(_)
LasRows(n) ==
  IF n = 0 THEN {<<>>}
  ELSE {Append(row, t) : row \in LasRows(n - 1),
                         t \in IF n = 1 THEN DepthTokens ELSE ValueTokens(n)}

\* lasio.read has read the header sections: the declared curves are known,
\* no data row is read yet; well 1 is the well the document resolves to.
InitExtract ==
  /\ wells = {[id |-> 1, name |-> "A"]} /\ nextWell = 2
  /\ files = {} /\ nextFile = 1 /\ blobs = <<>> /\ curves = EmptyBag
  /\ req = [r \in ReqIds |-> Idle]
  /\ events = NoEvents /\ bulk = NoBulk
  /\ \E n \in 0 .. MaxCurves :
       call = [fn |-> "parse_from_file_obj",
               las |-> [ok |-> TRUE, well |-> "A",
                        curves |-> SubSeq(Mnemonics, 1, n), data |-> <<>>]]

\* lasio.read reads one more row of the data section.
ReadRow ==
  /\ call.fn = "parse_from_file_obj"
  /\ Len(call.las.curves) > 0 /\ Len(call.las.data) < MaxRows
  /\ \E row \in LasRows(Len(call.las.curves)) :
       call' = [call EXCEPT !.las.data = Append(@, row)]
  /\ UNCHANGED <<store, req, events, bulk>>

\* A call of LASParserService.extract_curves(las, well_id).
ExtractCurves ==
  /\ call.fn = "parse_from_file_obj"
  /\ call' = [fn |-> "extract_curves", las |-> call.las, well_id |-> 1,
              result |-> extract_curves(call.las, 1)]
  /\ UNCHANGED <<store, req, events, bulk>>

NextExtract == ReadRow \/ ExtractCurves

SpecExtract == InitExtract /\ [][NextExtract]_vars

\* --------------------------------------------------------------- AIService
\* anomalies[:50], the cap of the returned list.
ANOMALY_CAP == 50

\* AIService._is_valid_value: not None and not NaN.
is_valid_value(v) == v.k \notin {"none", "nan"}

\* The rows of a bag at one depth, as a list: the rows of curve `first`
\* before the others, each row as often as the table holds it.
RECURSIVE tied_rows(_, _, _)
tied_rows(m, rs, first) ==
  IF rs = {} THEN <<>>
  ELSE LET a == CHOOSE x \in rs :
                  x.curve_name = first \/ \A y \in rs : y.curve_name # first
       IN [i \in 1 .. m[a] |-> a] \o tied_rows(m, rs \ {a}, first)

\* The rows of a bag of one well from depth d to depth last, ascending: one
\* of the lists ORDER BY depth allows.  The rows at a depth are looked up
\* by the names and values the bag holds; the range of depths is halved
\* until it is one depth.
RECURSIVE rows_by_depth(_, _, _, _, _, _, _)
rows_by_depth(m, well_id, names, values, d, last, first) ==
  IF d > last THEN <<>>
  ELSE IF d = last
  THEN tied_rows(m, {[well_id |-> well_id, depth |-> Num(d),
                      curve_name |-> c, value |-> v] : c \in names, v \in values}
                      \cap DOMAIN m, first)
  ELSE LET mid == (d + last) \div 2
       IN rows_by_depth(m, well_id, names, values, d, mid, first)
            \o rows_by_depth(m, well_id, names, values, mid + 1, last, first)

\* CurveDAO.get_by_well_and_depth_range for whole-number depths: the
\* matching rows in the order that puts curve `first` first among the rows
\* of one depth.
records_by_depth(cs, well_id, depth_min, depth_max, curve_names, first) ==
  LET m == matching(cs, well_id, depth_min, depth_max, curve_names)
  IN rows_by_depth(m, well_id, {x.curve_name : x \in DOMAIN m},
                   {x.value : x \in DOMAIN m}, depth_min.v, depth_max.v, first)

\* by_curve's keys, in insertion order: the curves that have a valid value
\* among the records, by first appearance (lines 39-42).
curve_keys(records) ==
  LET valid == {i \in DOMAIN records : is_valid_value(records[i].value)}
      names == {records[i].curve_name : i \in valid}
      first(cn) == CHOOSE i \in valid :
                     /\ records[i].curve_name = cn
                     /\ \A j \in valid : records[j].curve_name = cn => i <= j
  IN CHOOSE s \in [1 .. Cardinality(names) -> names] :
       \A i, j \in DOMAIN s : i < j => first(s[i]) < first(s[j])

\* by_curve[curve_name]: the (depth, value) points of the curve's valid
\* records, in the order of the records.
points_of(records, curve_name) ==
  SelectSeq(records, LAMBDA r : r.curve_name = curve_name /\ is_valid_value(r.value))

\* The sum of the values of points[lo .. hi].
RECURSIVE SumOver(_, _, _)
SumOver(points, lo, hi) ==
  IF lo > hi THEN 0
  ELSE IF lo = hi THEN points[lo].value.v
  ELSE SumOver(points, lo, (lo + hi) \div 2)
         + SumOver(points, (lo + hi) \div 2 + 1, hi)

\* n * (v - mean) for a value v of the points: the deviation from
\* statistics.mean (line 56), kept whole by the factor n.
Dev(v, n, sum) == n * v - sum

\* The sum of the squares of Dev over points[lo .. hi].
RECURSIVE SquaresOver(_, _, _, _, _)
SquaresOver(points, lo, hi, n, sum) ==
  IF lo > hi THEN 0
  ELSE IF lo = hi
  THEN Dev(points[lo].value.v, n, sum) * Dev(points[lo].value.v, n, sum)
  ELSE SquaresOver(points, lo, (lo + hi) \div 2, n, sum)
         + SquaresOver(points, (lo + hi) \div 2 + 1, hi, n, sum)

\* The statistics of one curve's points: their number, their sum (the mean
\* is sum / n) and n * n times the sum of squared deviations from the mean
\* (statistics.stdev is the root of that sum over n * n * (n - 1)).
stats_of(points) ==
  LET n == Len(points)
      sum == SumOver(points, 1, n)
  IN [n |-> n, sum |-> sum, squares |-> SquaresOver(points, 1, n, n, sum)]

\* The test of line 66 with one standard deviation in place of two.
beyond_one_sigma(v, st) ==
  LET dev == Dev(v, st.n, st.sum)
  IN IF st.n < 2 THEN dev # 0
     ELSE (st.n - 1) * dev * dev > st.squares

\* v > threshold_high or v < threshold_low (lines 63-66): v lies more than
\* two standard deviations from the mean, the deviation being the sample
\* one (statistics.stdev) and 0 for a single value (lines 57-60).  Squared
\* and multiplied out: (v - mean)^2 > 4 * squares / (n * n * (n - 1)).
beyond_two_sigma(v, st) ==
  LET dev == Dev(v, st.n, st.sum)
  IN IF st.n < 2 THEN dev # 0
     ELSE (st.n - 1) * dev * dev > 4 * st.squares

\* The anomalies of one curve (lines 65-73), in the order of its points;
\* mean is the fraction sum / n that the code rounds to four places.
anomalies_of(curve_name, points) ==
  LET st == stats_of(points)
      flagged == SelectSeq(points, LAMBDA p : beyond_two_sigma(p.value.v, st))
  IN [i \in DOMAIN flagged |->
        [depth |-> flagged[i].depth, curve_name |-> curve_name,
         value |-> flagged[i].value, mean |-> <<st.sum, st.n>>,
         deviation |-> IF Dev(flagged[i].value.v, st.n, st.sum) > 0
                       THEN "high" ELSE "low"]]

\* The anomalies list as the loop of line 48 builds it: curve after curve,
\* in the order of by_curve's keys.
RECURSIVE all_anomalies(_, _, _)
all_anomalies(records, keys, i) ==
  IF i > Len(keys) THEN <<>>
  ELSE anomalies_of(keys[i], points_of(records, keys[i]))
         \o all_anomalies(records, keys, i + 1)

\* s[:k] that keeps the whole list.
slice_all(s, k) == s

\* s[:k]
slice(s, k) == SubSeq(s, 1, IF Len(s) < k THEN Len(s) ELSE k)

\* AIService.interpret, for the records the query returned: None for an
\* unknown well; else the capped anomalies and, per curve of by_curve, the
\* count and mean of its insight (summary and interpretation are texts
\* derived from the same statistics).
interpret(ws, well_id, records) ==
  IF ~\E w \in ws : w.id = well_id THEN [k |-> "none"]
  ELSE LET keys == curve_keys(records)
       IN [k |-> "dict",
           anomalies |-> slice(all_anomalies(records, keys, 1), ANOMALY_CAP),
           insights |-> [i \in DOMAIN keys |->
                           LET st == stats_of(points_of(records, keys[i]))
                           IN [curve |-> keys[i], count |-> st.n,
                               mean |-> <<st.sum, st.n>>]]]

\* The stored tables of the observed calls: one well whose curves are
\* sampled at the depths 1, 2, ...; each curve repeats a block of `period`
\* samples, the last of the block at another level than the rest, and with
\* `gap` the first of the block absent.
MaxBlocks == 52
Periods == {5, 6, 7}
CurveSets == {{"GR"}, {"GR", "RHOB"}}

\* Up to MaxBlocks blocks in all: the small tables and the largest ones.
BlockCounts(names) ==
  LET most == MaxBlocks \div Cardinality(names)
  IN {b \in 0 .. most : b <= 2 \/ b >= most - 2}

\* The two levels; 10 and 100 in small tables only, to keep the products of
\* the squared deviations within TLC's integers.
Levels(b) == {<<0, 1>>, <<1, 0>>} \cup (IF b <= 1 THEN {<<10, 100>>} ELSE {})

SampleValue(j, period, lv, gap) ==
  IF j % period = 0 THEN Num(lv[2])
  ELSE IF gap /\ j % period = 1 THEN None ELSE Num(lv[1])

InitAI ==
  /\ wells = {[id |-> 1, name |-> "A"]} /\ nextWell = 2
  /\ files = {} /\ nextFile = 1 /\ blobs = <<>>
  /\ req = [r \in ReqIds |-> Idle]
  /\ events = NoEvents /\ bulk = NoBulk /\ call = NoCall
  /\ \E names \in CurveSets, period \in Periods, gap \in BOOLEAN :
       \E b \in BlockCounts(names) :
         \E lv \in Levels(b) :
           curves = [x \in {[well_id |-> 1, depth |-> Num(j), curve_name |-> c,
                             value |-> SampleValue(j, period, lv, gap)] :
                              j \in 1 .. period * b, c \in names} |-> 1]

\* The arguments of the observed calls: a known and an unknown well; the
\* first five depths, the whole table, or the table without its first block
\* rows; no name filter, one curve, or both.
WholeDepth == 7 * MaxBlocks
Windows == {<<1, 5>>, <<1, WholeDepth>>, <<7, WholeDepth>>}
AINameArgs == {<<>>, <<"GR">>, <<"RHOB", "GR">>}

\* A call of AIService.interpret.
Interpret ==
  /\ call = NoCall
  /\ \E well_id \in WellArgs, win \in Windows, curve_names \in AINameArgs,
        first \in {"GR", "RHOB"} :
       LET records == IF \E w \in wells : w.id = well_id
                      THEN records_by_depth(curves, well_id, Num(win[1]), Num(win[2]),
                                            curve_names, first)
                      ELSE <<>>
       IN call' = [fn |-> "interpret", well_id |-> well_id,
                   depth_min |-> Num(win[1]), depth_max |-> Num(win[2]),
                   curve_names |-> curve_names, records |-> records,
                   result |-> interpret(wells, well_id, records)]
  /\ UNCHANGED <<store, req, events, bulk>>

NextAI == Interpret

SpecAI == InitAI /\ [][NextAI]_vars

\* ------------------------------------------- status and importance updates
\* The bodies of the PATCH requests, as <<status, is_important>>: empty, a
\* valid status, a valid status and an importance, an invalid status.
Bodies == {<<None, None>>, <<Some("archived"), None>>,
           <<Some("archived"), Some(TRUE)>>, <<Some("bogus"), Some(TRUE)>>}

\* FileController.update: PATCH /api/files/<id>.  An invalid status is
\* answered 400 before the store is touched; else FileDAO.update_file with
\* the status and the importance only.
Update ==
  /\ \A r \in ReqIds : req[r].pc = "idle"
  /\ \E file_id \in 1 .. MaxFiles, body \in Bodies :
       LET status == body[1]
           is_important == body[2]
       IN IF status.k # "none" /\ status.v \notin {"active", "archived", "deleted"}
          THEN UNCHANGED files
          ELSE files' = update_file(files, file_id, status, is_important, None, None)
  /\ UNCHANGED <<wells, curves, blobs, nextWell, nextFile, req, observers>>

\* FileDAO.bulk_update: nothing without ids or without a field to set; else
\* the fields given are set on every record whose id is listed, and the
\* session is committed.
bulk_update(fs, file_ids, status, is_important) ==
  IF file_ids = {} \/ (status.k = "none" /\ is_important.k = "none") THEN fs
  ELSE {IF f.id \in file_ids
        THEN [f EXCEPT !.status = IF status.k # "none" THEN status.v ELSE @,
                       !.is_important = IF is_important.k # "none"
                                        THEN is_important.v ELSE @]
        ELSE f : f \in fs}

\* FileController.bulk_update: PATCH /api/files/bulk.  An empty file_ids or
\* an invalid status is answered 400; else FileDAO.bulk_update.
BulkUpdate ==
  /\ \A r \in ReqIds : req[r].pc = "idle"
  /\ \E file_ids \in SUBSET (1 .. MaxFiles), body \in Bodies :
       LET status == body[1]
           is_important == body[2]
       IN IF \/ file_ids = {}
             \/ status.k # "none" /\ status.v \notin {"active", "archived", "deleted"}
          THEN UNCHANGED files
          ELSE files' = bulk_update(files, file_ids, status, is_important)
  /\ UNCHANGED <<wells, curves, blobs, nextWell, nextFile, req, observers>>

\* The sequential program, one file per upload, with the two update routes.
NextUpdate ==
  \/ /\ \/ StartUpload(1, MaxFiles, ConcDocs, 1, BOOLEAN, Snapshot)
        \/ StartProcess(1, Snapshot) \/ StartDelete(1, Snapshot)
        \/ UploadOnlySteps(1) \/ ProcessUploadSteps(1) \/ ProcessSteps(1) \/ DeleteSteps(1)
        \/ Raise(1) \/ EndRequest(1)
     /\ UNCHANGED observers
  \/ Update \/ BulkUpdate

SpecUpdate == Init /\ [][NextUpdate]_vars

\* ------------------------------------ a stored document that repeats a depth
\* The same program, started with one more kind of stored upload: a document
\* whose data section lists the depth 1 twice. lasio reads such a file as it
\* reads any other, and the curves table has no unique constraint.
RepeatUploads == LegacyUploads \cup {<<"A3">>}

InitRepeat ==
  /\ req = [r \in ReqIds |-> Idle]
  /\ events = NoEvents /\ bulk = NoBulk /\ call = NoCall
  /\ curves = EmptyBag
  /\ \E up \in RepeatUploads :
       /\ wells = IF up = <<>> THEN {} ELSE {[id |-> 1, name |-> "Unprocessed"]}
       /\ nextWell = IF up = <<>> THEN 1 ELSE 2
       /\ files = {[id |-> n, well_id |-> 1, key |-> s3_key(1, LegacyName(n)),
                    processed |-> FALSE,                    status |-> "active", is_important |-> FALSE] : n \in DOMAIN up}
       /\ nextFile = Len(up) + 1
       /\ blobs = [k \in {s3_key(1, LegacyName(n)) : n \in DOMAIN up} |->
                     up[CHOOSE n \in DOMAIN up : s3_key(1, LegacyName(n)) = k]]

SpecRepeat == InitRepeat /\ [][Next]_vars

TypeOK ==
  /\ nextWell \in 1 .. MaxWells + 1
  /\ nextFile \in 1 .. MaxFiles + 1
  /\ \A w \in wells : w.id \in 1 .. MaxWells
  /\ \A f \in files : f.id \in 1 .. MaxFiles
  /\ \A r \in ReqIds : req[r].kind \in {"idle", "upload", "process", "delete"}
\* ----------------------------------------------------------------- claims
\* An ingestion: process_existing_file, or process_upload for one file.
Ingesting(q) == q.kind = "process" \/ (q.kind = "upload" /\ q.process)

\* The well name the handler resolved for its document.
NameOf(q) == IF q.kind = "upload" /\ ~q.process THEN UploadOnlyName(q.doc)
             ELSE get_well_name(LAS(q.doc))

CurveNames(rows) == {rows[i].curve_name : i \in DOMAIN rows}

\* C1: when an ingestion returns, the committed samples of its well are
\* exactly the samples it extracted; nothing of an earlier ingestion of the
\* well is left (replace, not merge).
C1_ReplaceNotMerge ==
  \A r \in ReqIds :
    (Ingesting(req[r]) /\ req[r].pc = "returned")
      => CurvesOfWell(curves, req[r].well) = BagOfSeq(Rows(r))

\* A second ingestion has returned for a well that held, before it, samples
\* of a curve the second document does not declare.
C1_Witness ==
  \E r \in ReqIds :
    /\ Ingesting(req[r]) /\ req[r].pc = "returned"
    /\ Rows(r) # <<>>
    /\ \E x \in DOMAIN req[r].before.curves :
         x.well_id = req[r].well /\ x.curve_name \notin CurveNames(Rows(r))

\* C2: rows handed to the session by bulk_insert become committed rows only
\* through the final commit of a bulk_insert call; a call that failed before
\* its commit never has its rows committed by a later commit of the session.
C2_AllOrNothing ==
  [][\A r \in ReqIds :
       (\E x \in Range(req[r].pending) : CopiesIn(x, curves') > CopiesIn(x, curves))
         => req[r].pc \in {"p_commit", "pu_commit"}]_vars

\* C3: when an ingestion attempt has raised, the committed samples are the
\* ones the attempt started from.
C3_FailureLeavesSamples ==
  \A r \in ReqIds :
    (Ingesting(req[r]) /\ req[r].pc = "raised") => curves = req[r].before.curves

\* C4: when process_existing_file has raised for a file that was not yet
\* processed, the file record still has processed = false.
C4_FailureLeavesUnprocessed ==
  \A r \in ReqIds :
    (req[r].kind = "process" /\ req[r].pc = "raised")
      => \A f \in files :
           (f.id = req[r].fid /\ \E g \in req[r].before.files : g.id = f.id /\ ~g.processed)
             => ~f.processed

\* C5: when two concurrent process requests that resolved to the same well
\* have both returned, the well's committed samples are those of one of
\* the two, not a mixture.
C5_NoInterleaving ==
  (/\ \A r \in ReqIds : req[r].kind = "process" /\ req[r].pc = "returned"
   /\ req[1].well = req[2].well)
    => \E r \in ReqIds : CurvesOfWell(curves, req[r].well) = BagOfSeq(Rows(r))

\* C6: no two wells share a name; and when upload_only, process_upload or
\* process_existing_file returns for a name that a well already had, no well
\* was created and the file record points at that well.
C6_WellReusedByName ==
  /\ \A w1, w2 \in wells : w1.name = w2.name => w1.id = w2.id
  /\ \A r \in ReqIds :
       (req[r].kind \in {"upload", "process"} /\ req[r].pc = "returned")
         => LET existing == get_by_name(req[r].before.wells, NameOf(req[r]))
            IN existing # {}
                 => /\ wells \subseteq req[r].before.wells
                    /\ \A f \in files :
                         f.id = req[r].fid => \E w \in existing : f.well_id = w.id

\* A handler has returned having reused a well that existed before it.
C6_Witness ==
  \E r \in ReqIds :
    /\ req[r].kind \in {"upload", "process"} /\ req[r].pc = "returned"
    /\ \E w \in req[r].before.wells, f \in files :
         w.name = NameOf(req[r]) /\ f.id = req[r].fid /\ f.well_id = w.id

\* The other file records the deleted file's well had before the delete.
OtherFiles(q) == {f \in q.before.files : f.well_id = q.well /\ f.id # q.fid}

\* C7: when delete_permanent returns for the only file of its well, the
\* well and its samples are gone; when the well had another file, the well
\* and its samples are as before.
C7_DeleteLastFile ==
  \A r \in ReqIds :
    (req[r].kind = "delete" /\ req[r].pc = "returned" /\ req[r].err = "none")
      => IF OtherFiles(req[r]) = {}
         THEN /\ \A w \in wells : w.id # req[r].well
              /\ CurvesOfWell(curves, req[r].well) = EmptyBag
         ELSE /\ \E w \in wells : w.id = req[r].well /\ w \in req[r].before.wells
              /\ CurvesOfWell(curves, req[r].well)
                   = CurvesOfWell(req[r].before.curves, req[r].well)

\* The last file of a well that held samples has been deleted.
C7_Witness ==
  \E r \in ReqIds :
    /\ req[r].kind = "delete" /\ req[r].pc = "returned" /\ req[r].err = "none"
    /\ OtherFiles(req[r]) = {}
    /\ CurvesOfWell(req[r].before.curves, req[r].well) # EmptyBag
    /\ \A w \in wells : w.id # req[r].well

Rejected(q) ==
  q.kind = "process" /\ \A f \in q.before.files : f.id = q.fid => f.processed

\* C9: process_existing_file for an absent or already processed file goes
\* no further than its lookup, raises, and leaves wells, files, samples and
\* blobs as they were.
C9_RejectedMutatesNothing ==
  \A r \in ReqIds :
    Rejected(req[r])
      => /\ req[r].pc \in {"p_get", "raised"}
         /\ Snapshot = req[r].before
         /\ req[r].pending = <<>>

\* A process request for an already processed file has raised.
C9_Witness ==
  \E r \in ReqIds :
    /\ Rejected(req[r]) /\ req[r].pc = "raised"
    /\ req[r].err = "File already processed"
    /\ curves # EmptyBag

\* C10: when the blob fetch of process_existing_file has failed, the call
\* has raised and the committed samples are as before, with nothing handed
\* to the session.
C10_FailedFetchLeavesSamples ==
  \A r \in ReqIds :
    (req[r].kind = "process" /\ req[r].err = "download")
      => /\ req[r].pc = "raised"
         /\ curves = req[r].before.curves
         /\ req[r].pending = <<>>

\* The fetch has failed while the store held samples.
C10_Witness ==
  \E r \in ReqIds :
    /\ req[r].kind = "process" /\ req[r].err = "download" /\ req[r].pc = "raised"
    /\ curves # EmptyBag
\* The emit calls of the request that were made, by step.
Made(step) == {k \in DOMAIN events.made : events.made[k].ev.step = step}

\* C11: progress emission is best-effort: no process request raises because
\* an emit call failed; a failing sink leaves the ingestion's outcome as it
\* would be with a working one.
C11_EmitBestEffort ==
  \A r \in ReqIds : ~(req[r].kind = "process" /\ req[r].pc = "raised" /\ req[r].err = "emit")

\* C12: a failing process request for file f has made an emit call with
\* file_id = f and step = error and none with step = done; a done call is
\* made only by a request that completes, after the file was marked
\* processed.
C12_ErrorAndDoneEvents ==
  \A r \in ReqIds :
    req[r].kind = "process" =>
      /\ (req[r].pc = "raised" /\ events.owed = <<>>) =>
           /\ \E k \in Made("error") : events.made[k].ev.file_id = req[r].fid
           /\ Made("done") = {}
      /\ Made("done") # {} =>
           /\ req[r].pc \in {"p_done", "returned"}
           /\ \E f \in files : f.id = req[r].fid /\ f.processed
\* ceil(n / c)
CeilDiv(n, c) == (n + c - 1) \div c

\* C13: a bulk_insert of a non-empty sequence commits exactly once, after
\* the last chunk was handed to the store; chunks are handed over one at a
\* time in input order; no sample of the call is committed before that
\* commit.  A bulk_insert of an empty sequence inserts and commits nothing.
C13_SingleFinalCommit ==
  LET total == Len(bulk.curves)
  IN /\ bulk.commits <= 1
     /\ Len(bulk.handed) <= total
     /\ bulk.handed = SubSeq(bulk.curves, 1, Len(bulk.handed))
     /\ bulk.pc = "batch" => Len(bulk.handed) = bulk.i
     /\ bulk.commits = 0 => curves = EmptyBag
     /\ bulk.commits = 1 => bulk.pc = "returned" /\ bulk.handed = bulk.curves
     /\ bulk.pc = "returned" =>
          /\ curves = BagOfSeq(bulk.curves)
          /\ bulk.commits = IF total = 0 THEN 0 ELSE 1
          /\ total = 0 => bulk.handed = <<>>

\* A call of three chunks has returned.
C13_Witness ==
  /\ bulk.pc = "returned" /\ bulk.commits = 1
  /\ Len(bulk.curves) > 2 * BATCH_SIZE
  /\ curves = BagOfSeq(bulk.curves)

\* C14: with chunk size c and n > 0 samples the progress callback is called
\* ceil(n/c) times, once after each chunk and before the commit; the k-th
\* call reports (min(k*c, n), n); the counts strictly increase and the last
\* is n.  For n = 0 it is never called.
C14_ProgressCalls ==
  LET n == Len(bulk.curves)
      c == BATCH_SIZE
      calls == bulk.calls
  IN /\ ~bulk.cb => calls = <<>>
     /\ \A k \in DOMAIN calls :
          calls[k] = <<IF k * c < n THEN k * c ELSE n, n>>
     /\ \A k \in DOMAIN calls : k > 1 => calls[k - 1][1] < calls[k][1]
     /\ bulk.cb /\ bulk.pc = "batch" => Len(calls) = bulk.i \div c
     /\ bulk.cb /\ bulk.pc \in {"commit", "returned"} =>
          /\ Len(calls) = CeilDiv(n, c)
          /\ n > 0 => calls[Len(calls)] = <<n, n>>
     /\ bulk.commits > 0 => bulk.pc = "returned"
     /\ n = 0 => calls = <<>>

\* A call with a callback and a last chunk that is not full has returned.
C14_Witness ==
  /\ bulk.pc = "returned" /\ bulk.cb
  /\ Len(bulk.curves) = 2 * BATCH_SIZE + 1
  /\ Len(bulk.calls) = 3
  /\ bulk.calls[3] = <<Len(bulk.curves), Len(bulk.curves)>>
\* The stored samples a call's filters select: those of the well, within
\* [depth_min, depth_max], of a requested name when names are given.
Selected(c) ==
  {x \in DOMAIN curves :
     /\ x.well_id = c.well_id
     /\ c.depth_min.v <= x.depth.v /\ x.depth.v <= c.depth_max.v
     /\ c.curve_names # <<>> => \E k \in DOMAIN c.curve_names : c.curve_names[k] = x.curve_name}

\* C15: for every stored table and every requested curve_names list, the
\* dict get_curve_data returns has a key for each requested name, and the
\* array under it is as long as the depth array.
C15_SeriesLengths ==
  (call.fn = "get_curve_data" /\ call.result.k = "dict") =>
    \A k \in DOMAIN call.curve_names :
      /\ call.curve_names[k] \in DOMAIN call.result.series
      /\ Len(call.result.series[call.curve_names[k]]) = Len(call.result.depth)

\* C16: in get_curve_data's result the depth array is strictly ascending
\* and holds exactly the distinct depths of the selected samples; under each
\* requested curve, index i holds a stored value of that curve's sample at
\* depth[i] when there is one and None otherwise.
C16_DepthAlignment ==
  (call.fn = "get_curve_data" /\ call.result.k = "dict") =>
    LET depth == call.result.depth
        sel == Selected(call)
    IN /\ \A i, j \in DOMAIN depth : i < j => depth[i].v < depth[j].v
       /\ Range(depth) = {x.depth : x \in sel}
       /\ \A cn \in DOMAIN call.result.series : \A i \in DOMAIN depth :
            LET at == {x \in sel : x.curve_name = cn /\ x.depth = depth[i]}
            IN IF at = {} THEN call.result.series[cn][i] = None
               ELSE call.result.series[cn][i] \in {x.value : x \in at}

\* Two requested curves, each with a sample at a depth where the other has
\* none.
C16_Witness ==
  /\ call.fn = "get_curve_data" /\ call.result.k = "dict"
  /\ call.curve_names = <<"GR", "RHOB">>
  /\ call.result.depth = <<Num(1), Num(2)>>
  /\ call.result.series["GR"] = <<None, Num(10)>>
  /\ call.result.series["RHOB"] = <<Num(10), None>>
  /\ curves = BagOfSeq(<<[well_id |-> 1, depth |-> Num(2), curve_name |-> "GR", value |-> Num(10)],
                         [well_id |-> 1, depth |-> Num(1), curve_name |-> "RHOB", value |-> Num(10)]>>)

\* C17: get_by_well_and_depth_range returns exactly the samples of the well
\* with depth_min <= depth <= depth_max, of the requested names when names
\* are given and of every curve otherwise, each as often as it is stored,
\* in non-decreasing depth order.
C17_RangeQuery ==
  call.fn = "get_by_well_and_depth_range" =>
    LET res == call.result
    IN /\ \A x \in DOMAIN curves \cup Range(res) :
            Cardinality({k \in DOMAIN res : res[k] = x})
              = IF x \in Selected(call) THEN curves[x] ELSE 0
       /\ \A i, j \in DOMAIN res : i < j => res[i].depth.v <= res[j].depth.v

\* The call returns two samples of one depth and different curves, and
\* leaves out a sample above depth_max and a sample of another well.
C17_Witness ==
  /\ call.fn = "get_by_well_and_depth_range"
  /\ call.well_id = 1 /\ call.depth_max = Num(1) /\ call.curve_names = <<>>
  /\ Len(call.result) = 2
  /\ call.result[1].depth = call.result[2].depth
  /\ call.result[1].curve_name # call.result[2].curve_name
  /\ \E x \in DOMAIN curves : x.well_id = 2

\* C18: get_depth_range_for_well returns None exactly when the well has no
\* sample; otherwise (min, max) of the depths of all the well's samples,
\* with min <= max.
C18_DepthRange ==
  call.fn = "get_depth_range_for_well" =>
    LET ds == {x.depth.v : x \in {y \in DOMAIN curves : y.well_id = call.well_id}}
        res == call.result
    IN /\ res.k = "none" <=> ds = {}
       /\ res.k # "none" =>
            /\ res.k = "range"
            /\ res.min.v \in ds /\ res.max.v \in ds
            /\ \A d \in ds : res.min.v <= d /\ d <= res.max.v
            /\ res.min.v <= res.max.v

\* A well with samples of two curves at different depths.
C18_Witness ==
  /\ call.fn = "get_depth_range_for_well"
  /\ call.result = [k |-> "range", min |-> Num(1), max |-> Num(2)]
  /\ Cardinality({x.curve_name : x \in {y \in DOMAIN curves : y.well_id = call.well_id}}) = 2
\* The samples extract_curves emitted for declared curve ci, in order.
SamplesOf(ci) ==
  SelectSeq(call.result, LAMBDA x : x.curve_name = call.las.curves[ci])

\* The data rows whose depth is a finite number, in order.
FiniteRows == SelectSeq(call.las.data, LAMBDA row : row[1].k = "num")

\* C19: extract_curves emits no sample for the first declared curve; for
\* each other declared curve it emits exactly one sample per row whose depth
\* is finite and none for a row whose depth is NaN or infinite; so at most
\* (N-1)*R samples, and none when only the depth curve is declared.
C19_FiniteDepthRows ==
  call.fn = "extract_curves" =>
    LET N == Len(call.las.curves)
        R == Len(call.las.data)
    IN /\ N >= 1 => SamplesOf(1) = <<>>
       /\ \A ci \in 2 .. N :
            /\ Len(SamplesOf(ci)) = Len(FiniteRows)
            /\ \A p \in DOMAIN SamplesOf(ci) : SamplesOf(ci)[p].depth = FiniteRows[p][1]
       /\ \A k \in DOMAIN call.result : call.result[k].depth.k = "num"
       /\ N >= 1 => Len(call.result) <= (N - 1) * R
       /\ N <= 1 => call.result = <<>>

\* C20: in a row with a valid depth, a value that is a no-data token (a
\* sentinel or not-a-number) still yields the sample at that depth, with
\* value None; every non-depth curve covers the same depths; no sample
\* stores a sentinel or not-a-number.
C20_NoDataIsNone ==
  call.fn = "extract_curves" =>
    LET N == Len(call.las.curves)
    IN /\ \A ci \in 2 .. N :
            LET own == SelectSeq(SamplesOf(ci), LAMBDA x : x.depth.k = "num")
            IN /\ Len(own) = Len(FiniteRows)
               /\ \A p \in DOMAIN own :
                    /\ own[p].depth = FiniteRows[p][1]
                    /\ own[p].value =
                         IF FiniteRows[p][ci].k \in {"nan", "1e+30", "1e+31"}
                         THEN None ELSE FiniteRows[p][ci]
       /\ \A ci, cj \in 2 .. N :
            [p \in DOMAIN SamplesOf(ci) |-> SamplesOf(ci)[p].depth]
              = [p \in DOMAIN SamplesOf(cj) |-> SamplesOf(cj)[p].depth]
       /\ \A k \in DOMAIN call.result :
            call.result[k].value.k \notin {"nan", "1e+30", "1e+31"}

\* Two log curves and a row at depth 1 where the first holds the 1e+30
\* sentinel and the second a number: both samples are emitted.
C20_Witness ==
  /\ call.fn = "extract_curves"
  /\ Len(call.las.curves) = 3 /\ Len(call.las.data) = 2
  /\ call.las.data[1] = <<Num(1), Big30, Num(10)>>
  /\ call.las.data[2][2] = NaN
  /\ Len(call.result) = 4
  /\ call.result[1] = [well_id |-> 1, depth |-> Num(1), curve_name |-> "GR", value |-> None]
  /\ call.result[3] = [well_id |-> 1, depth |-> Num(1), curve_name |-> "RHOB", value |-> Num(10)]

\* The committed samples of one (well, depth, curve_name).
SamplesAt(well_id, depth, curve_name) ==
  {x \in DOMAIN curves :
     x.well_id = well_id /\ x.depth = depth /\ x.curve_name = curve_name}

\* C21: the committed curves table holds at most one sample for each
\* (well, depth, curve_name), after any sequence of ingestions,
\* re-ingestions and deletions.
C21_OneSamplePerKey ==
  \A x \in DOMAIN curves :
    /\ curves[x] <= 1
    /\ SamplesAt(x.well_id, x.depth, x.curve_name) = {x}

\* Every anomaly interpret found for the records of the observed call, before
\* the cap.
Found == all_anomalies(call.records, curve_keys(call.records), 1)

\* C22: the anomaly list interpret returns never has more than 50 entries,
\* however many curves are requested and however many anomalies the depth
\* range holds.
C22_AnomalyCap ==
  (call.fn = "interpret" /\ call.result.k = "dict")
    => Len(call.result.anomalies) <= 50

\* interpret has returned 50 anomalies for a range that holds more, over two
\* curves.
C22_Witness ==
  /\ call.fn = "interpret" /\ call.result.k = "dict"
  /\ Len(Found) > 50
  /\ Len(call.result.anomalies) = 50
  /\ Len(call.result.insights) = 2

\* C23: when the range holds more than 50 anomalies, the list interpret
\* returns is the 50 anomalies of lowest depth over all requested curves, in
\* ascending depth order.
C23_LowestDepthsFirst ==
  (call.fn = "interpret" /\ call.result.k = "dict" /\ Len(Found) > 50)
    => LET out == call.result.anomalies
       IN /\ Len(out) = 50
          /\ Range(out) \subseteq Range(Found)
          /\ \A i \in 1 .. Len(out) - 1 : out[i].depth.v <= out[i + 1].depth.v
          /\ \A a \in Range(Found) \ Range(out) :
               \A o \in Range(out) : o.depth.v <= a.depth.v

\* interpret was called for records whose valid values are those of one
\* curve and are 10, 10, 10, 10, 100.
OneCurveTenTenHundred ==
  /\ call.fn = "interpret" /\ call.result.k = "dict"
  /\ Len(call.result.insights) = 1
  /\ LET points == points_of(call.records, call.result.insights[1].curve)
     IN [i \in DOMAIN points |-> points[i].value.v] = <<10, 10, 10, 10, 100>>

\* C24, as stated: for one curve with the values 10, 10, 10, 10, 100 (mean
\* 28) interpret flags the value 100 as an anomaly with deviation high and
\* flags none of the values 10.
C24_HundredFlagged ==
  OneCurveTenTenHundred
    => LET out == call.result.anomalies
       IN /\ \E i \in DOMAIN out :
               /\ out[i].value = Num(100) /\ out[i].deviation = "high"
               /\ out[i].mean = <<28 * 5, 5>>
          /\ \A i \in DOMAIN out : out[i].value # Num(10)

\* C24, amended: for one curve with the values 10, 10, 10, 10, 100 the mean
\* is 28 and interpret flags no value: with the sample standard deviation
\* of the five values, 100 is not strictly above mean + 2 * std.
C24_NoneFlagged ==
  OneCurveTenTenHundred
    => /\ call.result.anomalies = <<>>
       /\ call.result.insights[1].mean = <<28 * 5, 5>>
       /\ call.result.insights[1].count = 5

\* interpret has returned for such a curve, asked for by name.
C24_Witness ==
  /\ OneCurveTenTenHundred
  /\ call.curve_names = <<"GR">>
  /\ Len(call.records) = 5

\* The file record an ingestion has marked processed: the record of its
\* file, processed now and not processed (or not there) before the request.
MarkedBy(r) ==
  {f \in files :
     /\ f.id = req[r].fid /\ f.processed
     /\ ~\E g \in req[r].before.files : g.id = f.id /\ g.processed}

\* C25: an ingestion that has ended, returned or failed, leaves no file
\* record marked processed whose extracted samples are not committed.
C25_ProcessedAfterCommit ==
  \A r \in ReqIds :
    (Ingesting(req[r]) /\ req[r].pc \in {"returned", "raised"})
      => \A f \in MarkedBy(r) :
           \A i \in DOMAIN Rows(r) : BagIn(Rows(r)[i], curves)

\* C26: under every interleaving of delete_permanent with a concurrent
\* upload_only or ingestion on the same well, a step that removes a well
\* finds no file record referencing it (so removes none with it), and no
\* file record or sample is ever left referencing a well that is gone.
C26_WellRemovedWhenUnreferenced ==
  [][/\ \A w \in wells \ wells' : \A f \in files : f.well_id # w.id
     /\ \A f \in files' : \E w \in wells' : w.id = f.well_id
     /\ \A x \in DOMAIN curves' : \E w \in wells' : w.id = x.well_id]_vars

\* C27: when two concurrent upload or ingestion requests whose documents
\* carry the same well name have both returned, exactly one well has that
\* name and both requests used it.
C27_OneWellPerName ==
  (/\ \A r \in ReqIds : req[r].kind \in {"upload", "process"} /\ req[r].pc = "returned"
   /\ NameOf(req[1]) = NameOf(req[2]))
    => /\ Cardinality(get_by_name(wells, NameOf(req[1]))) = 1
       /\ req[1].well = req[2].well

\* The file records a step keeps that are not the file of a delete_permanent
\* in flight: the records of other files.
OtherRecords ==
  {f \in files \cap files' :
     ~\E r \in ReqIds : /\ req[r].kind = "delete" \/ req'[r].kind = "delete"
                        /\ req[r].fid = f.id \/ req'[r].fid = f.id}

\* C28: the blob a remaining file record points to is there as long as the
\* record is: no step of an upload or of the permanent deletion of another
\* file (one of the same name in the same well included) overwrites or
\* removes it.
C28_BlobOfRecordKept ==
  [][\A f \in OtherRecords :
       f.key \in DOMAIN blobs
         => f.key \in DOMAIN blobs' /\ blobs'[f.key] = blobs[f.key]]_vars

\* C29: once the operations made so far have ended, returned or failed
\* part-way, every well has at least one file record.
C29_NoWellWithoutFiles ==
  (\A r \in ReqIds : req[r].pc \in {"idle", "returned", "raised"})
    => \A w \in wells : get_by_well_id(files, w.id) # {}

\* C30: in every step, a file record that stays keeps a processed flag that
\* is true; the flag turns true only in the update_file step of a
\* process_existing_file call on that file whose extracted samples are all
\* committed; and a step that changes a record's status or importance
\* leaves its flag, its well and the samples as they were.
C30_ProcessedMonotone ==
  [][\A f \in files, g \in files' :
       g.id = f.id =>
         /\ f.processed => g.processed
         /\ (~f.processed /\ g.processed) =>
              \E r \in ReqIds :
                /\ req[r].kind = "process" /\ req[r].fid = f.id
                /\ req[r].pc = "p_update"
                /\ \A i \in DOMAIN Rows(r) : BagIn(Rows(r)[i], curves)
         /\ (f.status # g.status \/ f.is_important # g.is_important) =>
              /\ g.processed = f.processed /\ g.well_id = f.well_id
              /\ curves' = curves /\ wells' = wells]_vars

\* A file that process_existing_file moved from the placeholder well to the
\* well of its samples is processed, archived and marked important.
C30_Witness ==
  \E f \in files :
    /\ f.processed /\ f.status = "archived" /\ f.is_important
    /\ f.key # s3_key(f.well_id, "f.las")
    /\ CurvesOfWell(curves, f.well_id) # EmptyBag
====
